---- MODULE Spec2Model ----
(***************************************************************************)
(* Model of vqe/cost_function.py: the cost-function facades                *)
(* PrepareAndMeasureOnWFSim and PrepareAndMeasureOnQVM and the helper      *)
(* address_qubits_hamiltonian.                                             *)
(*                                                                         *)
(* Conventions                                                             *)
(*  - An optional argument is None (the empty tuple) or Some(v).            *)
(*  - Coefficients and energies are kept in units of 1/2 (2.5 is 5), so    *)
(*    that the Hamiltonian of the tests has integer coefficients.          *)
(*  - Angles are in units of pi; RX(k*pi) has entries in {0, 1, -1, i, -i},*)
(*    so amplitudes are Gaussian integers <<re, im>>.                      *)
(*  - A PauliTerm is [coeff, ops] with ops the set of <<qubit, op>> pairs  *)
(*    (PauliTerm.operations_as_set); a PauliSum is the sequence of terms.  *)
(***************************************************************************)
EXTENDS Integers, Sequences, FiniteSets, TLC

\* ------------------------------------------------------------------ bounds
\* Longest PauliSum drawn as an input of address_qubits_hamiltonian.
MaxTerms == 2
\* Largest number of facade calls in one behaviour.
MaxCalls == 2
\* Largest shot count passed to a constructor or to a call.
MaxShots == 2

\* ------------------------------------------------------- pyquil.paulis
\* Python None and a present value v of an optional argument.
None == <<>>
Some(v) == <<v>>
IsNone(v) == v = <<>>
Val(v) == v[1]

\* PAULI_OPS without the identity: an identity factor is never stored.
Ops == {"X", "Y", "Z"}

\* Abstract qubit identifiers (QubitPlaceholder objects) and concrete indices.
Placeholders == {0, 1}
Indices == {0, 1}

\* PauliTerm(op, index, coefficient) and products of such terms.
PauliTerm(ops, coeff) == [coeff |-> coeff, ops |-> ops]

\* PauliTerm.get_qubits
term_get_qubits(term) == {f[1] : f \in term.ops}

\* PauliSum.get_qubits: the union of the terms' qubits.
get_qubits(psum) == UNION {term_get_qubits(psum[i]) : i \in 1..Len(psum)}

RECURSIVE SumCoeff(_, _, _)
\* sum(t.coefficient for t in term_list) for the like terms with key k.
SumCoeff(terms, k, i) ==
  IF i > Len(terms) THEN 0
  ELSE (IF terms[i].ops = k THEN terms[i].coeff ELSE 0) + SumCoeff(terms, k, i + 1)

RECURSIVE simplify_from(_, _)
\* simplify_pauli_sum: like terms (same operations_as_set) are merged in
\* order of first appearance, a merged coefficient of zero drops the term.
simplify_from(terms, i) ==
  IF i > Len(terms) THEN <<>>
  ELSE LET k == terms[i].ops
           first == \A j \in 1..(i - 1) : terms[j].ops # k
           c == SumCoeff(terms, k, 1)
       IN (IF first /\ c # 0 THEN <<PauliTerm(k, c)>> ELSE <<>>)
          \o simplify_from(terms, i + 1)

\* PauliSum(terms).simplify(); PauliSum([]) is stored as [0.0 * ID()].
simplify(terms) ==
  LET s == simplify_from(terms, 1)
  IN IF s = <<>> THEN <<PauliTerm({}, 0)>> ELSE s

\* A qubit mapping: a function from placeholders to <<type, index>>, the
\* values being pyquil Qubit objects or plain ints.
MapIndex(v) == v[2]

\* ------------------------------------------- address_qubits_hamiltonian
\* ops.append((factor[1], qubit_mapping[factor[0]])) for every factor.
MapFactorsUnmapped(term, int_mapping) ==
  {<<f[1], f[2]>> : f \in term.ops}

MapFactors(term, int_mapping) ==
  {<<int_mapping[f[1]], f[2]>> : f \in term.ops}

\* The Qubit -> int conversion of the mapping's values.
IntMapping(qubit_mapping) ==
  [q \in DOMAIN qubit_mapping |-> MapIndex(qubit_mapping[q])]

RECURSIVE remap_from(_, _, _, _)
\* The loop over the terms; out is the PauliSum accumulated so far.
remap_from(hamiltonian, int_mapping, i, out) ==
  IF i > Len(hamiltonian) THEN [status |-> "ok", value |-> out]
  ELSE LET term == hamiltonian[i]
       IN IF ~(term_get_qubits(term) \subseteq DOMAIN int_mapping)
          THEN [status |-> "KeyError", value |-> <<>>]
          ELSE LET ops == MapFactors(term, int_mapping)
               IN \* PauliTerm.from_list refuses factors on a repeated index
                  IF Cardinality({f[1] : f \in ops}) # Cardinality(term.ops)
                  THEN [status |-> "ValueError", value |-> <<>>]
                  ELSE remap_from(hamiltonian, int_mapping, i + 1,
                                  simplify(Append(out, PauliTerm(ops, term.coeff))))

address_qubits_hamiltonian(hamiltonian, qubit_mapping) ==
  remap_from(hamiltonian, IntMapping(qubit_mapping), 1, <<PauliTerm({}, 0)>>)

\* The value of a function expression, computed once: TLC otherwise computes
\* the expression again at every application of the function.
Eager(f) == IF f = <<>> THEN f ELSE f

\* ------------------------------------------------------ complex numbers
Cadd(a, b) == <<a[1] + b[1], a[2] + b[2]>>
Cmul(a, b) == <<a[1] * b[1] - a[2] * b[2], a[1] * b[2] + a[2] * b[1]>>
Cscale(k, a) == <<k * a[1], k * a[2]>>
Conj(a) == <<a[1], -a[2]>>

RECURSIVE CSum(_, _)
\* f[0] + ... + f[n] for a function f into the complex numbers.
CSum(f, n) == IF n < 0 THEN <<0, 0>> ELSE Cadd(f[n], CSum(f, n - 1))

RECURSIVE Pow2(_)
Pow2(n) == IF n = 0 THEN 1 ELSE 2 * Pow2(n - 1)

\* Bit q of a basis index: qubit 0 is the least significant bit.
Bit(b, q) == (b \div Pow2(q)) % 2
Flip(b, q) == IF Bit(b, q) = 1 THEN b - Pow2(q) ELSE b + Pow2(q)

\* ---------------------------------------- the state preparation program
\* The ansatz of the tests over the placeholders q0 = 0 and q1 = 1:
\* <<"RX", i, q>> is RX(params[i], q), <<"CNOT", c, t>> is CNOT(c, t).
TestAnsatz ==
  << <<"RX", 1, 0>>, <<"RX", 2, 1>>, <<"CNOT", 0, 1>>, <<"RX", 3, 0>>, <<"RX", 4, 1>> >>

\* The Hamiltonian of the tests in units of 1/2:
\* 2.5 * Z(q0) + 0.5 * Z(q1) - 1 * Z(q1) * Z(q0).
TestHamiltonian ==
  << PauliTerm({<<0, "Z">>}, 5), PauliTerm({<<1, "Z">>}, 1),
     PauliTerm({<<0, "Z">>, <<1, "Z">>}, -2) >>

\* pyquil.quil.address_qubits: every placeholder of the program is replaced.
address_qubits(program, qubit_mapping) ==
  [i \in 1..Len(program) |->
     IF program[i][1] = "RX"
     THEN <<"RX", program[i][2], MapIndex(qubit_mapping[program[i][3]])>>
     ELSE <<"CNOT", MapIndex(qubit_mapping[program[i][2]]),
                    MapIndex(qubit_mapping[program[i][3]])>>]

ProgramQubits(program) ==
  UNION {IF program[i][1] = "RX" THEN {program[i][3]}
         ELSE {program[i][2], program[i][3]} : i \in 1..Len(program)}

\* Number of amplitudes of the wavefunction of a program.
ProgramDim(program) ==
  LET qs == ProgramQubits(program)
  IN Pow2(1 + CHOOSE m \in qs : \A q \in qs : q <= m)

\* cos and sin of k * pi / 2.
CosHalf(k) == CASE k % 4 = 0 -> 1 [] k % 4 = 2 -> -1 [] OTHER -> 0
SinHalf(k) == CASE k % 4 = 1 -> 1 [] k % 4 = 3 -> -1 [] OTHER -> 0

\* RX(k * pi) on qubit q: [[cos, -i sin], [-i sin, cos]] of the half angle.
ApplyRX(psi, k, q) ==
  Eager([b \in DOMAIN psi |->
           LET o == psi[Flip(b, q)]
           IN Cadd(Cscale(CosHalf(k), psi[b]), Cscale(SinHalf(k), <<o[2], -o[1]>>))])

ApplyCNOTSwapped(psi, c, t) ==
  Eager([b \in DOMAIN psi |-> IF Bit(b, t) = 1 THEN psi[Flip(b, c)] ELSE psi[b]])

\* CNOT(c, t): the target is flipped where the control is set.
ApplyCNOT(psi, c, t) ==
  Eager([b \in DOMAIN psi |-> IF Bit(b, c) = 1 THEN psi[Flip(b, t)] ELSE psi[b]])

RECURSIVE RunProgram(_, _, _, _)
RunProgram(program, values, i, psi) ==
  IF i > Len(program) THEN psi
  ELSE LET ins == program[i]
       IN RunProgram(program, values, i + 1,
            IF ins[1] = "RX" THEN ApplyRX(psi, values[ins[2]], ins[3])
            ELSE ApplyCNOT(psi, ins[2], ins[3]))

\* WavefunctionSimulator.wavefunction(program, memory_map).amplitudes
wavefunction(program, values) ==
  RunProgram(program, values, 1,
             [b \in 0..(ProgramDim(program) - 1) |-> IF b = 0 THEN <<1, 0>> ELSE <<0, 0>>])

\* --------------------------------------------------------- PauliSum.matrix
PauliEntry(op, a, b) ==
  CASE op = "I" -> IF a = b THEN <<1, 0>> ELSE <<0, 0>>
    [] op = "X" -> IF a # b THEN <<1, 0>> ELSE <<0, 0>>
    [] op = "Y" -> IF a = b THEN <<0, 0>> ELSE IF a = 0 THEN <<0, -1>> ELSE <<0, 1>>
    [] op = "Z" -> IF a # b THEN <<0, 0>> ELSE IF a = 0 THEN <<1, 0>> ELSE <<-1, 0>>

OpAt(ops, q) ==
  IF \E f \in ops : f[1] = q THEN (CHOOSE f \in ops : f[1] = q)[2] ELSE "I"

RECURSIVE KronEntry(_, _, _, _)
\* Entry (r, c) of the tensor product of the factors on qubits 0..q.
KronEntry(ops, r, c, q) ==
  IF q < 0 THEN <<1, 0>>
  ELSE Cmul(PauliEntry(OpAt(ops, q), Bit(r, q), Bit(c, q)), KronEntry(ops, r, c, q - 1))

RECURSIVE SumEntry(_, _, _, _, _)
SumEntry(psum, r, c, nqubits, i) ==
  IF i > Len(psum) THEN <<0, 0>>
  ELSE Cadd(Cscale(psum[i].coeff, KronEntry(psum[i].ops, r, c, nqubits - 1)),
            SumEntry(psum, r, c, nqubits, i + 1))

\* hamiltonian.matrix(int_mapping, nqubits): a dense 2^n x 2^n matrix.
matrix(psum, int_mapping, nqubits) ==
  LET mapped == Eager([i \in 1..Len(psum) |->
                         PauliTerm(MapFactors(psum[i], int_mapping), psum[i].coeff)])
      d == Pow2(nqubits)
  IN [dim |-> d,
      m |-> Eager([rc \in (0..(d - 1)) \X (0..(d - 1)) |->
                     SumEntry(mapped, rc[1], rc[2], nqubits, 1)])]

\* self.ham ** 2: the matrix product for a numpy matrix, the element-wise
\* square for a numpy ndarray.
ham_pow2(ham, ham_type) ==
  [dim |-> ham.dim,
   m |-> Eager([rc \in DOMAIN ham.m |->
                  IF ham_type = "matrix"
                  THEN CSum([k \in 0..(ham.dim - 1) |->
                               Cmul(ham.m[<<rc[1], k>>], ham.m[<<k, rc[2]>>])],
                            ham.dim - 1)
                  ELSE Cmul(ham.m[rc], ham.m[rc])])]

\* np.conj(wf).T.dot(ham.dot(wf)).real
Expectation(ham, wf) ==
  CSum([k \in 0..(ham.dim * ham.dim - 1) |->
          LET r == k \div ham.dim
              c == k % ham.dim
          IN Cmul(Conj(wf[r]), Cmul(ham.m[<<r, c>>], wf[c]))],
       ham.dim * ham.dim - 1)[1]

\* ----------------------------------------------- forest_qaoa.vqe.measurelib
\* Two terms commute qubit-wise: on every shared qubit they act alike.
QubitwiseCommute(s, t) ==
  \A f \in s.ops : \A g \in t.ops : f[1] = g[1] => f[2] = g[2]

Fits(group, term) == \A j \in 1..Len(group) : QubitwiseCommute(group[j], term)

\* The term joins the first group all of whose members it commutes with,
\* or opens a new group.
Place(groups, term) ==
  IF \E k \in 1..Len(groups) : Fits(groups[k], term)
  THEN LET k == CHOOSE k \in 1..Len(groups) :
                  Fits(groups[k], term) /\ \A j \in 1..(k - 1) : ~Fits(groups[j], term)
       IN [groups EXCEPT ![k] = Append(@, term)]
  ELSE Append(groups, <<term>>)

RECURSIVE decompose_from(_, _, _)
decompose_from(psum, i, groups) ==
  IF i > Len(psum) THEN groups
  ELSE decompose_from(psum, i + 1, Place(groups, psum[i]))

\* commuting_decomposition(ham): the ordered list of commuting groups.
commuting_decomposition(psum) == decompose_from(psum, 1, <<>>)

RECURSIVE Parity(_, _)
\* Product over the term's qubits of +1 for a bit 0 and -1 for a bit 1.
Parity(row, qubits) ==
  IF qubits = {} THEN 1
  ELSE LET q == CHOOSE q \in qubits : TRUE
       IN (1 - 2 * row[q]) * Parity(row, qubits \ {q})

RECURSIVE ParitySum(_, _, _)
ParitySum(batch, term, i) ==
  IF i > Len(batch) THEN 0
  ELSE Parity(batch[i], term_get_qubits(term)) + ParitySum(batch, term, i + 1)

RECURSIVE GroupMean(_, _, _)
GroupMean(group, batch, j) ==
  IF j > Len(group) THEN 0
  ELSE group[j].coeff * ParitySum(batch, group[j], 1) + GroupMean(group, batch, j + 1)

RECURSIVE GroupVar(_, _, _)
GroupVar(group, batch, j) ==
  IF j > Len(group) THEN 0
  ELSE LET s == ParitySum(batch, group[j], 1)
           n == Len(batch)
       IN group[j].coeff * group[j].coeff * (n * n - s * s) + GroupVar(group, batch, j + 1)

RECURSIVE SumGroups(_, _, _, _)
SumGroups(hams, bitstrings, k, useVar) ==
  IF k > Len(hams) THEN 0
  ELSE (IF useVar THEN GroupVar(hams[k], bitstrings[k], 1)
        ELSE GroupMean(hams[k], bitstrings[k], 1))
       + SumGroups(hams, bitstrings, k + 1, useVar)

\* sampling_expectation_z_base(hams, bitstrings): the pair (mean, stderr).
\* The mean is num / den halves; the squared standard error is num / den.
sampling_expectation_z_base(hams, bitstrings) ==
  LET n == IF Len(bitstrings) = 0 THEN 1 ELSE Len(bitstrings[1])
  IN << [num |-> SumGroups(hams, bitstrings, 1, FALSE), den |-> n],
        [num |-> SumGroups(hams, bitstrings, 1, TRUE), den |-> n * n * n] >>

\* ------------------------------------------------- the sampling backend
\* The operator a group measures on qubit q.
MeasuredOp(group, q) ==
  LET fs == UNION {{f \in group[j].ops : f[1] = q} : j \in 1..Len(group)}
  IN IF fs = {} THEN "I" ELSE (CHOOSE f \in fs : TRUE)[2]

\* Rows a noiseless run can return: a qubit measured in the Z basis shows its
\* bit of a basis state of non-zero amplitude, a rotated qubit shows any bit.
Rows(exe, values) ==
  LET psi == wavefunction(exe.program, values)
      qs == get_qubits(exe.ham)
  IN {row \in [qs -> {0, 1}] :
        \E b \in DOMAIN psi :
          /\ psi[b] # <<0, 0>>
          /\ \A q \in qs : MeasuredOp(exe.ham, q) = "Z" => row[q] = Bit(b, q)}

\* qvm.run(exe, memory_map): the batches of exe.trials rows.
run(exe, values) == [1..exe.trials -> Rows(exe, values)]

\* append_measure_register and qvm.compile for one group.
compile(program, group, base_numshots) ==
  [program |-> program, ham |-> group, trials |-> base_numshots]

\* ================================================================ state
VARIABLES
  phase,            \* "new", "failed" (the constructor raised), "ready", "running"
  kind,             \* "WFSim" or "QVM": the class of the facade
  ctor_args,        \* the arguments the constructor was called with
  ctor_error,       \* the exception the constructor raised, or None
  warned,           \* a DeprecationWarning was emitted
  scalar,           \* self.scalar
  self_nshots,      \* self.nshots
  noisy,            \* self.noisy
  prepare_ansatz,   \* self.prepare_ansatz (WFSim), the addressed program
  ham,              \* self.ham (WFSim)
  ham_squared,      \* self.ham_squared (WFSim)
  hams,             \* self.hams (QVM): the commuting groups
  exes,             \* self.exes (QVM): the compiled executables
  has_log,          \* the attribute self.log exists
  log,              \* self.log
  heap,             \* the parameter arrays: heap[1] is the caller's array
  call,             \* locals of the QVM call in progress
  out,              \* the local `out` of the last evaluation
  ret,              \* <<"none">>, <<"return", value>> or <<"raise", exception>>
  wf_last,          \* the local `wf` of the last evaluation (WFSim)
  ncalls,           \* calls made so far
  returns,          \* calls that returned a value so far
  passed,           \* what each logging call was given and computed: [x, fun]
  last_eval,        \* the last evaluation: params, the nshots argument, the count used
  compiles,         \* qvm.compile invocations: the group compiled, in order
  runlog,           \* qvm.run invocations of the last call: [exe, bits], in order
  wf_calls,         \* sim.wavefunction invocations
  r_ham, r_map, r_out   \* input and result of address_qubits_hamiltonian

facade_vars == <<phase, kind, ctor_args, ctor_error, warned, scalar, self_nshots, noisy,
                 prepare_ansatz, ham, ham_squared, hams, exes, has_log, log, heap,
                 call, out, ret, wf_last, ncalls, returns, passed, last_eval, compiles, runlog, wf_calls>>
remap_vars == <<r_ham, r_map, r_out>>
vars == <<facade_vars, remap_vars>>

\* ------------------------------------------------------------- inputs
\* The value the deprecated argument falls back to.
DeprecatedNshots == 1000

ShotArgs == {None} \cup {Some(n) : n \in 0..MaxShots}
DeprecatedArgs == {None, Some(TRUE), Some(FALSE)}

\* A second observable with two commuting groups: Z(q0)*Z(q1) + X(q0).
TwoGroupHamiltonian ==
  << PauliTerm({<<0, "Z">>, <<1, "Z">>}, 2), PauliTerm({<<0, "X">>}, 2) >>

FacadeHamiltonians == {TestHamiltonian, TwoGroupHamiltonian}

\* Hamiltonians given as a numeric array instead of a PauliSum (entries in
\* halves, like the coefficients): the single-qubit X matrix [[0,1],[1,0]],
\* and X on qubit 0 of two qubits, which fits the two-qubit ansatz.
XMatrix ==
  [dim |-> 2,
   m |-> [rc \in (0..1) \X (0..1) |-> IF rc[1] # rc[2] THEN <<2, 0>> ELSE <<0, 0>>]]
XOnTwoQubits ==
  [dim |-> 4,
   m |-> [rc \in (0..3) \X (0..3) |->
            IF Flip(rc[1], 0) = rc[2] THEN <<2, 0>> ELSE <<0, 0>>]]
ArrayHamiltonians == {XMatrix, XOnTwoQubits}

\* isinstance(hamiltonian, PauliSum) / isinstance(hamiltonian, (np.matrix, np.ndarray))
HamiltonianKinds == {"PauliSum", "array"}
\* The numpy type of self.ham: the type of the array given, or the type
\* hamiltonian.matrix returns.
ArrayTypes == {"ndarray", "matrix"}
\* ctor_args.hamiltonian when the hamiltonian given is not a PauliSum.
NotPauliSum == <<>>

\* qubit_mapping = {q0: 0, q1: 1} and {q0: Qubit(1), q1: Qubit(0)}.
TestMapping == [q \in Placeholders |-> <<"int", q>>]
FacadeMappings == {TestMapping, [q \in Placeholders |-> <<"Qubit", 1 - q>>]}

\* Parameter vectors in units of pi, and the samples of np.random.randn().
ParamSet == {<<0, 1, 0, 0>>, <<1, 0, 0, 0>>}
InitialParams == <<0, 1, 0, 0>>
NoiseSamples == {-1, 1}
BaseNumshots == {1, 2}

NoCall == [nshots |-> 0, ei |-> 0, done |-> 0, bitstring |-> <<>>, bitstrings |-> <<>>]

InitFacade ==
  /\ phase = "new" /\ kind = "none" /\ ctor_error = None /\ warned = FALSE
  /\ ctor_args = <<>>
  /\ scalar = FALSE /\ self_nshots = None /\ noisy = FALSE
  /\ prepare_ansatz = <<>> /\ ham = <<>> /\ ham_squared = <<>>
  /\ hams = <<>> /\ exes = <<>> /\ has_log = FALSE /\ log = <<>>
  /\ heap = <<InitialParams>> /\ call = NoCall /\ out = <<>> /\ ret = <<"none">>
  /\ wf_last = <<>> /\ ncalls = 0 /\ returns = 0 /\ passed = <<>>
  /\ last_eval = [x |-> <<>>, arg |-> None, used |-> -1]
  /\ compiles = <<>> /\ runlog = <<>> /\ wf_calls = 0

NotApplied == [status |-> "none", value |-> <<>>]

InitNoRemap == r_ham = <<>> /\ r_map = <<>> /\ r_out = NotApplied

Init == InitFacade /\ InitNoRemap

\* -------------------------------------------------------- constructors
WFSimInitConfigNoCheck(return_standard_deviation, scalar_cost_function, nshots) ==
  [scalar |-> scalar_cost_function, nshots |-> nshots, warned |-> FALSE, error |-> None]

\* PrepareAndMeasureOnWFSim.__init__: the deprecated argument overrides the
\* configuration, then the configuration is checked.
WFSimInitConfig(return_standard_deviation, scalar_cost_function, nshots) ==
  LET dep == ~IsNone(return_standard_deviation)
      sc == IF dep THEN TRUE ELSE scalar_cost_function
      ns == IF dep THEN Some(DeprecatedNshots) ELSE nshots
  IN [scalar |-> sc, nshots |-> ns, warned |-> dep,
      error |-> IF sc /\ IsNone(ns) THEN Some("ValueError") ELSE None]

\* PrepareAndMeasureOnQVM.__init__: the configuration is checked as given,
\* then the deprecated argument overrides it.
QVMInitConfig(return_standard_deviation, scalar_cost_function, nshots) ==
  IF scalar_cost_function /\ IsNone(nshots)
  THEN [scalar |-> scalar_cost_function, nshots |-> nshots, warned |-> FALSE,
        error |-> Some("ValueError")]
  ELSE LET dep == ~IsNone(return_standard_deviation)
       IN [scalar |-> IF dep THEN TRUE ELSE scalar_cost_function,
           nshots |-> IF dep THEN Some(DeprecatedNshots) ELSE nshots,
           warned |-> dep, error |-> None]

CtorArgs(return_standard_deviation, scalar_cost_function, nshots, hamiltonian, qubit_mapping, base_numshots) ==
  [return_standard_deviation |-> return_standard_deviation,
   scalar_cost_function |-> scalar_cost_function, nshots |-> nshots,
   hamiltonian |-> hamiltonian, qubit_mapping |-> qubit_mapping,
   base_numshots |-> base_numshots]

ConstructorRaises(k, error) ==
  /\ phase' = "failed" /\ kind' = k /\ ctor_error' = error
  /\ UNCHANGED <<warned, scalar, self_nshots, noisy, prepare_ansatz, ham, ham_squared,
                 hams, exes, has_log, log, heap, call, out, ret, wf_last, ncalls,
                 returns, passed, last_eval, compiles, runlog, wf_calls>>

ConstructWFSim ==
  /\ UNCHANGED remap_vars
  /\ phase = "new"
  /\ \E return_standard_deviation \in DeprecatedArgs, scalar_cost_function \in BOOLEAN,
        nshots \in ShotArgs, noisy_arg \in BOOLEAN, enable_logging \in BOOLEAN,
        ham_kind \in HamiltonianKinds, qubit_mapping \in FacadeMappings,
        ham_type \in ArrayTypes :
     \E hamiltonian \in IF ham_kind = "PauliSum" THEN FacadeHamiltonians ELSE {NotPauliSum},
        array \in IF ham_kind = "array" THEN ArrayHamiltonians ELSE {XMatrix} :
       LET cfg == WFSimInitConfig(return_standard_deviation, scalar_cost_function, nshots)
           h == IF ham_kind = "PauliSum"
                THEN matrix(hamiltonian, IntMapping(qubit_mapping),
                            Cardinality(get_qubits(hamiltonian)))
                ELSE array
       IN /\ ctor_args' = CtorArgs(return_standard_deviation, scalar_cost_function, nshots,
                                   hamiltonian, qubit_mapping, 0)
          /\ IF ~IsNone(cfg.error)
               THEN ConstructorRaises("WFSim", cfg.error)
               ELSE /\ phase' = "ready" /\ kind' = "WFSim"
                    /\ scalar' = cfg.scalar /\ self_nshots' = cfg.nshots
                    /\ warned' = cfg.warned
                    /\ noisy' = noisy_arg
                    /\ prepare_ansatz' = address_qubits(TestAnsatz, qubit_mapping)
                    /\ ham' = h
                    /\ ham_squared' = ham_pow2(h, ham_type)
                    /\ has_log' = enable_logging /\ log' = <<>>
                    /\ UNCHANGED <<ctor_error, hams, exes, heap, call, out, ret, wf_last,
                                   ncalls, returns, passed, last_eval, compiles, runlog, wf_calls>>

CompileAllFirstOnly(program, groups, base_numshots) ==
  [k \in 1..(IF Len(groups) > 1 THEN 1 ELSE Len(groups)) |->
     compile(program, groups[k], base_numshots)]

\* The loop that builds self.exes: one qvm.compile per group, in group order.
CompileAll(program, groups, base_numshots) ==
  [k \in 1..Len(groups) |-> compile(program, groups[k], base_numshots)]

ConstructQVM(Hamiltonians, Mappings, Bases, Logging) ==
  /\ UNCHANGED remap_vars
  /\ phase = "new"
  /\ \E return_standard_deviation \in DeprecatedArgs, scalar_cost_function \in BOOLEAN,
        nshots \in ShotArgs, enable_logging \in Logging, base_numshots \in Bases,
        hamiltonian \in Hamiltonians, qubit_mapping \in Mappings :
       LET cfg == QVMInitConfig(return_standard_deviation, scalar_cost_function, nshots)
           mapped == address_qubits_hamiltonian(hamiltonian, qubit_mapping)
       IN /\ ctor_args' = CtorArgs(return_standard_deviation, scalar_cost_function, nshots,
                                   hamiltonian, qubit_mapping, base_numshots)
          /\ IF ~IsNone(cfg.error)
               THEN ConstructorRaises("QVM", cfg.error)
               ELSE IF mapped.status # "ok"
               THEN ConstructorRaises("QVM", Some(mapped.status))
               ELSE LET groups == commuting_decomposition(mapped.value)
                        compiled == CompileAll(address_qubits(TestAnsatz, qubit_mapping),
                                               groups, base_numshots)
                    IN /\ phase' = "ready" /\ kind' = "QVM"
                       /\ scalar' = cfg.scalar /\ self_nshots' = cfg.nshots
                       /\ warned' = cfg.warned
                       /\ hams' = groups
                       /\ exes' = compiled
                       /\ compiles' = [k \in 1..Len(compiled) |-> compiled[k].ham]
                       /\ has_log' = enable_logging /\ log' = <<>>
                       /\ UNCHANGED <<ctor_error, noisy, prepare_ansatz, ham, ham_squared,
                                      heap, call, out, ret, wf_last, ncalls, returns,
                                      passed, last_eval, runlog, wf_calls>>

\* --------------------------------------------------------------- calls
\* The head of both __call__ methods: nshots falls back to self.nshots in
\* scalar mode; a missing count is an error otherwise.
ResolveNshots(self_scalar, nshots_init, nshots) ==
  IF IsNone(nshots)
  THEN IF self_scalar THEN [error |-> None, n |-> nshots_init]
       ELSE [error |-> Some("ValueError"), n |-> None]
  ELSE [error |-> None, n |-> nshots]

deepcopyAlias(h, ref) == [heap |-> h, ref |-> ref]

\* copy.deepcopy(params): a new array with the values of params.
deepcopy(h, ref) == [heap |-> Append(h, h[ref]), ref |-> Len(h) + 1]

\* LogEntry(x=..., fun=out)
LogEntry(x, fun) == [x |-> x, fun |-> fun]

ReturnedPair(self_scalar, o) == o

\* The value handed back: out[0], written <<mean>>, or the pair out.
Returned(self_scalar, o) == IF self_scalar THEN <<o[1]>> ELSE o

\* try: self.log.append(LogEntry(x=deepcopy(params), fun=out))
\* except AttributeError: pass
AppendLog(o) ==
  /\ returns' = returns + 1
  /\ IF has_log
     THEN LET cp == deepcopy(heap, 1)
          IN /\ heap' = cp.heap
             /\ log' = Append(log, LogEntry(cp.ref, o))
             /\ passed' = Append(passed, [x |-> heap[1], fun |-> o])
     ELSE UNCHANGED <<heap, log, passed>>

CallRaises(error) ==
  /\ ret' = <<"raise", error>>
  /\ UNCHANGED <<heap, log, passed, out, returns>>

CallWFSim ==
  /\ UNCHANGED remap_vars
  /\ phase = "ready" /\ kind = "WFSim" /\ ncalls < MaxCalls
  /\ ncalls' = ncalls + 1
  /\ \E wf \in {wavefunction(prepare_ansatz, heap[1])} :
     \E fits \in {Cardinality(DOMAIN wf) = ham.dim} :
     \E E \in {IF fits THEN Expectation(ham, wf) ELSE 0} :
     \E gap \in {IF fits THEN Expectation(ham_squared, wf) - E * E ELSE 0} :
     \E nshots \in ShotArgs, z \in NoiseSamples :
          LET res == ResolveNshots(scalar, self_nshots, nshots)
          IN IF ~IsNone(res.error)
             THEN /\ CallRaises(Val(res.error))
                  /\ UNCHANGED <<wf_calls, wf_last, last_eval>>
             ELSE /\ wf_calls' = wf_calls + 1 /\ wf_last' = wf
                  /\ IF ~fits
                       THEN CallRaises("ValueError") /\ UNCHANGED last_eval
                       ELSE IF Val(res.n) = 0
                       THEN CallRaises("ZeroDivisionError") /\ UNCHANGED last_eval
                       ELSE LET o == << [e |-> E, noise |-> IF noisy THEN z * gap ELSE 0],
                                        [n |-> Val(res.n), gap |-> gap] >>
                            IN /\ out' = o
                               /\ last_eval' = [x |-> heap[1], arg |-> nshots, used |-> Val(res.n)]
                               /\ AppendLog(o)
                               /\ ret' = <<"return", Returned(scalar, o)>>
  /\ UNCHANGED <<phase, kind, ctor_args, ctor_error, warned, scalar, self_nshots, noisy,
                 prepare_ansatz, ham, ham_squared, hams, exes, has_log, call, compiles,
                 runlog>>

\* The caller changes its parameter array in place between two calls.
MutateParams ==
  /\ UNCHANGED remap_vars
  /\ phase = "ready"
  /\ \E v \in ParamSet : v # heap[1] /\ heap' = [heap EXCEPT ![1] = v]
  /\ UNCHANGED <<phase, kind, ctor_args, ctor_error, warned, scalar, self_nshots, noisy,
                 prepare_ansatz, ham, ham_squared, hams, exes, has_log, log, call, out,
                 ret, wf_last, ncalls, returns, passed, last_eval, compiles, runlog,
                 wf_calls>>

\* Runs of one executable: bitstring = run(...), then range(nshots - 1) more.
RunsFor(n) == 1 + (IF n - 1 > 0 THEN n - 1 ELSE 0)

\* PrepareAndMeasureOnQVM.__call__ up to the loop over self.exes.  A call
\* that needs more than MaxShots runs of an executable is not explored.
CallQVMBegin ==
  /\ UNCHANGED remap_vars
  /\ phase = "ready" /\ kind = "QVM" /\ ncalls < MaxCalls
  /\ ncalls' = ncalls + 1
  /\ \E nshots \in ShotArgs :
       LET res == ResolveNshots(scalar, self_nshots, nshots)
       IN IF ~IsNone(res.error)
          THEN /\ ret' = <<"raise", Val(res.error)>>
               /\ UNCHANGED <<phase, call, runlog, last_eval, out>>
          ELSE /\ Val(res.n) <= MaxShots
               /\ phase' = "running"
               /\ call' = [nshots |-> Val(res.n), ei |-> 1, done |-> 0,
                           bitstring |-> <<>>, bitstrings |-> <<>>]
               /\ runlog' = <<>>
               /\ last_eval' = [x |-> heap[1], arg |-> nshots, used |-> Val(res.n)]
               /\ ret' = <<"none">> /\ out' = <<>>
  /\ UNCHANGED <<kind, ctor_args, ctor_error, warned, scalar, self_nshots, noisy,
                 prepare_ansatz, ham, ham_squared, hams, exes, has_log, log, heap,
                 wf_last, returns, passed, compiles, wf_calls>>

\* One self.qvm.run(exe, memory_map=memory_map) and the np.append of its rows.
QVMRun ==
  /\ UNCHANGED remap_vars
  /\ phase = "running" /\ call.ei <= Len(exes)
  /\ \E new_bits \in run(exes[call.ei], heap[1]) :
       LET bitstring == call.bitstring \o new_bits
           last == call.done + 1 >= RunsFor(call.nshots)
       IN /\ runlog' = Append(runlog, [exe |-> call.ei, bits |-> new_bits])
          /\ call' = IF last
                     THEN [call EXCEPT !.ei = @ + 1, !.done = 0, !.bitstring = <<>>,
                                       !.bitstrings = Append(@, bitstring)]
                     ELSE [call EXCEPT !.done = @ + 1, !.bitstring = bitstring]
  /\ UNCHANGED <<phase, kind, ctor_args, ctor_error, warned, scalar, self_nshots, noisy,
                 prepare_ansatz, ham, ham_squared, hams, exes, has_log, log, heap, out,
                 ret, wf_last, ncalls, returns, passed, last_eval, compiles, wf_calls>>

\* An exception of the backend's run leaves the call: nothing is logged.
QVMRunRaises ==
  /\ UNCHANGED remap_vars
  /\ phase = "running" /\ call.ei <= Len(exes)
  /\ phase' = "ready" /\ call' = NoCall
  /\ ret' = <<"raise", "BackendError">>
  /\ UNCHANGED <<kind, ctor_args, ctor_error, warned, scalar, self_nshots, noisy,
                 prepare_ansatz, ham, ham_squared, hams, exes, has_log, log, heap, out,
                 wf_last, ncalls, returns, passed, last_eval, compiles, runlog, wf_calls>>

\* The rest of __call__: the estimate, the log entry and the return.
CallQVMEnd ==
  /\ UNCHANGED remap_vars
  /\ phase = "running" /\ call.ei > Len(exes)
  /\ LET o == sampling_expectation_z_base(hams, call.bitstrings)
     IN /\ out' = o
        /\ AppendLog(o)
        /\ ret' = <<"return", Returned(scalar, o)>>
  /\ phase' = "ready" /\ call' = [NoCall EXCEPT !.bitstrings = call.bitstrings]
  /\ UNCHANGED <<kind, ctor_args, ctor_error, warned, scalar, self_nshots, noisy,
                 prepare_ansatz, ham, ham_squared, hams, exes, has_log, wf_last, ncalls,
                 last_eval, compiles, runlog, wf_calls>>

\* Both facades, the sampling facade on the observable of the tests.
Next ==
  \/ ConstructWFSim
  \/ ConstructQVM({TestHamiltonian}, {TestMapping}, {1}, BOOLEAN)
  \/ CallWFSim \/ MutateParams
  \/ CallQVMBegin \/ QVMRun \/ QVMRunRaises \/ CallQVMEnd

Spec == Init /\ [][Next]_vars

\* The sampling facade alone, on both observables, without a log.
NextQVM ==
  \/ ConstructQVM(FacadeHamiltonians, FacadeMappings, BaseNumshots, {FALSE})
  \/ MutateParams
  \/ CallQVMBegin \/ QVMRun \/ QVMRunRaises \/ CallQVMEnd

SpecQVM == Init /\ [][NextQVM]_vars

\* The exact facade alone, on both observables, without a log.
NextWF == ConstructWFSim \/ CallWFSim \/ MutateParams

SpecWF == Init /\ [][NextWF]_vars

\* ------------------------------------ address_qubits_hamiltonian alone
\* The factor sets of a term: at most one operator on each placeholder.
TermOps ==
  {ops \in SUBSET (Placeholders \X Ops) :
     \A f \in ops : \A g \in ops : f[1] = g[1] => f = g}

Coefficients == {-1, 0, 1}
Terms == {PauliTerm(ops, c) : ops \in TermOps, c \in Coefficients}
\* PauliSum([]) is stored as one zero term: a PauliSum is never empty.
PauliSums == UNION {[1..n -> Terms] : n \in 1..MaxTerms}

\* Mappings of some of the placeholders, to ints or to Qubit objects.
Mappings ==
  UNION {[dom -> {<<t, i>> : i \in Indices}] : dom \in SUBSET Placeholders, t \in {"int", "Qubit"}}

InitRemap ==
  /\ InitFacade
  /\ r_ham \in PauliSums /\ r_map \in Mappings /\ r_out = NotApplied

Remap ==
  /\ r_out = NotApplied
  /\ r_out' = address_qubits_hamiltonian(r_ham, r_map)
  /\ UNCHANGED <<facade_vars, r_ham, r_map>>

SpecRemap == InitRemap /\ [][Remap]_vars

\* ================================================================ claims
Constructed == phase # "new"
NoShotConfig ==
  /\ IsNone(ctor_args.return_standard_deviation)
  /\ ctor_args.scalar_cost_function
  /\ IsNone(ctor_args.nshots)

\* C1: a constructor called without return_standard_deviation, with
\* scalar_cost_function = True and nshots = None raises ValueError before any
\* compile, run or wavefunction of the backend, and no facade can be called.
C1_ConfigErrorBeforeBackend ==
  (Constructed /\ NoShotConfig) =>
     /\ phase = "failed" /\ ctor_error = Some("ValueError")
     /\ compiles = <<>> /\ runlog = <<>> /\ wf_calls = 0
     /\ ncalls = 0 /\ ~warned

C1_Witness == phase = "failed" /\ kind = "QVM" /\ NoShotConfig

\* C2: whenever return_standard_deviation is given, the constructor warns and
\* proceeds with scalar = True and nshots = 1000, whatever the other arguments.
C2_DeprecatedNeverFails ==
  (Constructed /\ ~IsNone(ctor_args.return_standard_deviation)) =>
     /\ phase # "failed" /\ warned
     /\ scalar /\ self_nshots = Some(DeprecatedNshots)

C4_OneEntryPerCall ==
  (has_log /\ phase = "ready") =>
     /\ Len(log) = ncalls
     /\ \A i \in 1..Len(log) : heap[log[i].x] = passed[i].x

\* C4 as amended: the log has one entry per call that returned, in call order;
\* entry i keeps the parameter values and the result of the i-th such call,
\* whatever the caller later writes into its own array.
C4_OneEntryPerReturnedCall ==
  (has_log /\ phase = "ready") =>
     /\ Len(log) = returns /\ Len(passed) = returns
     /\ \A i \in 1..Len(log) :
          /\ heap[log[i].x] = passed[i].x
          /\ log[i].fun = passed[i].fun

C4_Witness ==
  /\ has_log /\ phase = "ready" /\ Len(log) = 2
  /\ heap[log[1].x] # heap[1] /\ heap[log[2].x] # heap[1]
  /\ heap[log[1].x] = passed[1].x

Evaluated == last_eval.used # -1

\* C5: in scalar mode the shot count an evaluation uses is the constructor's
\* nshots, whatever nshots the call was given.
C5_CallNshotsIgnored ==
  (Constructed /\ phase # "failed" /\ scalar /\ Evaluated) =>
     last_eval.used = Val(self_nshots)

Applied == r_out.status # "none"
UsedQubits == get_qubits(r_ham)
Collision ==
  \E p \in UsedQubits \cap DOMAIN r_map : \E q \in UsedQubits \cap DOMAIN r_map :
     p # q /\ MapIndex(r_map[p]) = MapIndex(r_map[q])

\* C6: address_qubits_hamiltonian rejects a mapping that sends two distinct
\* qubits of the observable to one index; it never returns a merged observable.
C6_CollisionRejected == (Applied /\ Collision) => r_out.status # "ok"

Covers == UsedQubits \subseteq DOMAIN r_map
MapValues == {MapIndex(r_map[q]) : q \in DOMAIN r_map}
UsedImage == {MapIndex(r_map[q]) : q \in UsedQubits}

\* C7 as stated: for a mapping that covers the observable's qubits, the qubit
\* set of the returned observable is the set of the mapping's values.
C7_QubitsAreMapValues ==
  (Applied /\ Covers /\ r_out.status = "ok") => get_qubits(r_out.value) = MapValues

\* The remapped terms before they are merged, and whether merging drops one.
RemappedTerms ==
  [i \in 1..Len(r_ham) |-> PauliTerm(MapFactors(r_ham[i], IntMapping(r_map)), r_ham[i].coeff)]
TermDropped ==
  \E i \in 1..Len(r_ham) : SumCoeff(RemappedTerms, RemappedTerms[i].ops, 1) = 0

\* C7 as amended: the qubit set of the returned observable lies in the image
\* of the observable's own qubits, hence in the mapping's values, and is that
\* image whenever no term is dropped for a zero merged coefficient; values of
\* the mapping that no qubit of the observable is sent to do not appear.
C7_QubitsAreImageOfUsed ==
  (Applied /\ r_out.status = "ok") =>
     /\ Covers
     /\ get_qubits(r_out.value) \subseteq UsedImage
     /\ UsedImage \subseteq MapValues
     /\ ~TermDropped => get_qubits(r_out.value) = UsedImage

C7_Witness ==
  /\ Applied /\ r_out.status = "ok" /\ ~TermDropped /\ ~Collision
  /\ UsedQubits # {} /\ UsedQubits # DOMAIN r_map
  /\ \E q \in UsedQubits : MapIndex(r_map[q]) # q
  /\ get_qubits(r_out.value) = UsedImage /\ UsedImage # MapValues

Prob(amplitude) == amplitude[1] * amplitude[1] + amplitude[2] * amplitude[2]
TestSetup ==
  /\ kind = "WFSim" /\ phase = "ready" /\ ret[1] = "return"
  /\ ctor_args.hamiltonian = TestHamiltonian /\ ctor_args.qubit_mapping = TestMapping

\* C8 as stated: on the observable, ansatz and mapping of the tests, the
\* evaluation at [0, pi, 0, 0] prepares |11> with probability 1 and returns -4
\* (-8 halves).
C8_MinimumAtZeroPi ==
  (TestSetup /\ last_eval.x = <<0, 1, 0, 0>>) =>
     /\ Prob(wf_last[3]) = 1
     /\ ret[2][1] = [e |-> -8, noise |-> 0]

\* C8 as amended: the evaluation at [pi, 0, 0, 0] prepares |11> with
\* probability 1 and returns -4; the one at [0, pi, 0, 0] prepares |10>
\* (q1 set, q0 clear) with probability 1 and returns 3 (6 halves).
C8_MinimumAtPiZero ==
  TestSetup =>
     /\ last_eval.x = <<1, 0, 0, 0>> =>
          /\ Prob(wf_last[3]) = 1
          /\ ret[2][1] = [e |-> -8, noise |-> 0]
     /\ last_eval.x = <<0, 1, 0, 0>> =>
          /\ Prob(wf_last[2]) = 1
          /\ ret[2][1] = [e |-> 6, noise |-> 0]

C8_Witness ==
  /\ TestSetup /\ last_eval.x = <<1, 0, 0, 0>>
  /\ Prob(wf_last[3]) = 1 /\ out[1].e = -8

QVMReturned == kind = "QVM" /\ phase = "ready" /\ ret[1] = "return"
RunsOf(k) == SelectSeq(runlog, LAMBDA r : r.exe = k)

RECURSIVE ConcatBits(_)
ConcatBits(runs) ==
  IF runs = <<>> THEN <<>> ELSE Head(runs).bits \o ConcatBits(Tail(runs))

\* C9: a call with resolved shot count n runs every executable exactly n
\* times, group after group in construction order, and hands the estimator,
\* for each group, its n results in run order: n * base_numshots rows.
C9_RunsPerGroup ==
  QVMReturned =>
     /\ \A i \in 1..Len(runlog) : \A j \in i..Len(runlog) : runlog[i].exe <= runlog[j].exe
     /\ \A k \in 1..Len(exes) :
          /\ Len(RunsOf(k)) = last_eval.used
          /\ call.bitstrings[k] = ConcatBits(RunsOf(k))
          /\ Len(call.bitstrings[k]) = last_eval.used * exes[k].trials

QVMBuilt == kind = "QVM" /\ phase \in {"ready", "running"}

\* C10: compile is invoked once per commuting group, in group order, by the
\* constructor and never by a call; after any calls self.hams and self.exes
\* are what the constructor left, one executable per group in group order.
C10_CompiledOnceAndFrozen ==
  /\ [](QVMBuilt =>
          /\ Len(exes) = Len(hams) /\ Len(compiles) = Len(hams)
          /\ \A k \in 1..Len(hams) :
               /\ compiles[k] = hams[k]
               /\ exes[k] = compile(address_qubits(TestAnsatz, ctor_args.qubit_mapping),
                                    hams[k], ctor_args.base_numshots))
  /\ [][QVMBuilt => (hams' = hams /\ exes' = exes /\ compiles' = compiles)]_vars

C10_Witness ==
  /\ QVMReturned /\ ncalls = 2 /\ returns = 1 /\ Len(hams) = 2
  /\ Len(exes) = 2 /\ Len(compiles) = 2

\* The matrix product H . H, and the identity matrix (in quarters: products of
\* entries in halves).
HdotH(h) ==
  [dim |-> h.dim,
   m |-> [rc \in DOMAIN h.m |->
            CSum([k \in 0..(h.dim - 1) |-> Cmul(h.m[<<rc[1], k>>], h.m[<<k, rc[2]>>])],
                 h.dim - 1)]]
IdentityMatrix(d) ==
  [dim |-> d,
   m |-> [rc \in (0..(d - 1)) \X (0..(d - 1)) |->
            IF rc[1] = rc[2] THEN <<4, 0>> ELSE <<0, 0>>]]
WFSimReady == kind = "WFSim" /\ phase = "ready"

\* C11: for every hamiltonian the exact facade accepts, PauliSum or array, the
\* stored square is the matrix product H . H, so that the spread of an
\* evaluation satisfies n^(1/2) * sigma = Re(psi* . (H . H) . psi) - E^2; for
\* the single-qubit X matrix the stored square is the identity matrix.
C11_SquareIsMatrixProduct ==
  WFSimReady =>
     /\ ham_squared = HdotH(ham)
     /\ ham = XMatrix => ham_squared = IdentityMatrix(2)
     /\ ret[1] = "return" =>
          out[2].gap = Expectation(HdotH(ham), wf_last) - out[1].e * out[1].e

====
